---------------------------- MODULE Spec2Model ----------------------------
(* Model of the OMR POS backend: the Python engine wrapper                 *)
(* (services/pythonOMRProcessor.js), the OMR routes (routes/omr.js), the   *)
(* menu and order routes with their validation middleware (routes/menu.js, *)
(* routes/orders.js, middleware/validation.js, server.js), the confidence  *)
(* display of the web client and the layout of the form regions.           *)
EXTENDS Integers, Sequences, FiniteSets, TLC

VARIABLES
  call,                  \* one direct invocation of the engine wrapper
  pythonProcessorReady,  \* routes/omr.js: let pythonProcessorReady
  initPc,                \* position of pythonOMRProcessor.initialize()
  files,                 \* uploaded image files present in uploads/
  req,                   \* per request: position and locals of its handler
  orders,                \* table orders
  order_items,           \* table order_items
  omr_forms,             \* table omr_forms
  menu_items,            \* table menu_items
  api,                   \* per menu/order request: position and locals of its handler
  menu_seq,              \* sqlite_sequence row of menu_items: the last id handed out
  client,                \* the web client: what its page shows
  layout,                \* one use of the layout model of the form
  scorer,                \* one use of the mark scorer of the engine
  ui,                    \* the web client: its script variables and requests in flight
  boot                   \* server.js: start-up of the server and its database

\* what the wrapper and the OMR routes never touch
otherVars == <<api, menu_seq, client, layout, scorer, ui, boot>>

vars == <<call, pythonProcessorReady, initPc, files, req, orders, order_items, omr_forms,
          menu_items, otherVars>>

serverVars == <<pythonProcessorReady, initPc, files, req, orders, order_items, omr_forms,
                menu_items, otherVars>>

-----------------------------------------------------------------------------
(* Bounds *)

MaxMarks == 3      \* longest list of marks the engine prints
ConfScale == 2     \* a mark confidence c stands for c / ConfScale, so ConfScale is 1.0
NumReqs == 2       \* concurrent OMR requests
NumApi == 2        \* menu and order requests, which may overlap
ImageSide == 2     \* side of the binary image the scorer reads, in pixels
MaxSide == 2       \* largest side of a region handed to the scorer, in pixels
MaxInFlight == 2   \* requests of the web client awaiting their response
MaxDim == 24       \* largest image width and height, in pixels

-----------------------------------------------------------------------------
(* JSON values printed by the Python engine *)

Vocab == {"isda", "egg"}

MarkTypes == {"quantity", "selection"}

Mark == [item : Vocab, type : MarkTypes, isMarked : BOOLEAN, confidence : 0..ConfScale]

\* JS null (also what JSON.parse("null") gives)
NullJson == [kind |-> "null", success |-> "absent", marksKind |-> "absent", marks |-> <<>>]

ObjJson(success, marksKind, marks) ==
  [kind |-> "object", success |-> success, marksKind |-> marksKind, marks |-> marks]

\* what the text on stdout is: not JSON at all, or the JSON text of a value
BadStdout == [valid |-> FALSE, value |-> NullJson]

GoodStdout(v) == [valid |-> TRUE, value |-> v]

\* error messages
MsgENOENT == "ENOENT: no such file or directory, access"
MsgSpawn == "spawn python ENOENT"
MsgExit == "Python process exited with code 1"
MsgSyntax == "Unexpected token in JSON"
MsgNullProp == "Cannot read properties of null"
MsgNotFn == "marks.forEach is not a function"
MsgUndefProp == "Cannot read properties of undefined"
MsgOMRFailed == "OMR processing failed"
NoError == ""

-----------------------------------------------------------------------------
(* services/pythonOMRProcessor.js *)

\* how a spawned Python process ends: an 'error' event (spawn failed), a
\* 'close' event with an exit code after printing stdout, or an 'error' event
\* followed by a 'close' event with a non-zero code ("error-close")
ProcOutcome(event, code, stdout) == [event |-> event, code |-> code, stdout |-> stdout]

\* the promise of runPythonCommand before any event
PendingRun == [settled |-> FALSE, resolved |-> FALSE, stdout |-> BadStdout, message |-> NoError]

\* python.on('error', ...): reject(error)
onError == [settled |-> TRUE, resolved |-> FALSE, stdout |-> BadStdout, message |-> MsgSpawn]

\* python.on('close', ...): resolve(stdout) for code 0, reject otherwise
onClose(proc) ==
  IF proc.code = 0
  THEN [settled |-> TRUE, resolved |-> TRUE, stdout |-> proc.stdout, message |-> NoError]
  ELSE [settled |-> TRUE, resolved |-> FALSE, stdout |-> BadStdout, message |-> MsgExit]

\* variant: a later resolve or reject replaces the earlier settlement
settleLast(promise, outcome) == outcome

\* resolve / reject of a Promise: only the first call settles it
settle(promise, outcome) == IF promise.settled THEN promise ELSE outcome

\* runPythonCommand: the promise resolves with stdout on close with code 0,
\* and rejects on any other close code or on an 'error' event
runPythonCommand(proc) ==
  LET afterError == IF proc.event \in {"error", "error-close"}
                    THEN settle(PendingRun, onError)
                    ELSE PendingRun
  IN  IF proc.event \in {"close", "error-close"}
      THEN settle(afterError, onClose(proc))
      ELSE afterError

\* JSON.parse(result): throws SyntaxError on text that is not JSON
JSONparse(stdout) ==
  IF stdout.valid
  THEN [threw |-> FALSE, value |-> stdout.value, message |-> NoError]
  ELSE [threw |-> TRUE, value |-> NullJson, message |-> MsgSyntax]

PIResult(success, error, data) == [success |-> success, error |-> error, data |-> data]

\* the catch block of processImage
processImageCatch(message) == PIResult(FALSE, message, NullJson)

\* a settled call of an async function: rejected (threw), or fulfilled with value;
\* spawned records whether the Python process was started
Settled(rejected, spawned, value) ==
  [rejected |-> rejected, spawned |-> spawned, value |-> value]

\* variant: no fs.access before the spawn
processImageNoAccess(exists, proc) ==
  LET run == runPythonCommand(IF exists THEN proc ELSE ProcOutcome("close", 1, BadStdout))
  IN  IF ~run.resolved
      THEN Settled(FALSE, TRUE, processImageCatch(run.message))
      ELSE LET parsed == JSONparse(run.stdout)
           IN  IF parsed.threw
               THEN Settled(FALSE, TRUE, processImageCatch(parsed.message))
               ELSE Settled(FALSE, TRUE, PIResult(TRUE, NoError, parsed.value))

\* processImage(imagePath): exists says whether fs.access(imagePath) succeeds
processImage(exists, proc) ==
  IF ~exists
  THEN Settled(FALSE, FALSE, processImageCatch(MsgENOENT))
  ELSE LET run == runPythonCommand(proc)
       IN  IF ~run.resolved
           THEN Settled(FALSE, TRUE, processImageCatch(run.message))
           ELSE LET parsed == JSONparse(run.stdout)
                IN  IF parsed.threw
                    THEN Settled(FALSE, TRUE, processImageCatch(parsed.message))
                    ELSE Settled(FALSE, TRUE, PIResult(TRUE, NoError, parsed.value))

\* itemGroups: keys in insertion order; grp[item][type] is the index in marks
\* of the mark stored under that item and type, 0 when there is none
EmptyGroups == [keys |-> <<>>, grp |-> [x \in Vocab |-> [t \in MarkTypes |-> 0]]]

SeqRange(s) == {s[i] : i \in 1..Len(s)}

\* variant: the first mark stored under an item and type is kept
GroupStoreFirst(g, marks, i) ==
  [keys |-> IF marks[i].item \in SeqRange(g.keys) THEN g.keys ELSE Append(g.keys, marks[i].item),
   grp  |-> IF g.grp[marks[i].item][marks[i].type] # 0 THEN g.grp
            ELSE [g.grp EXCEPT ![marks[i].item][marks[i].type] = i]]

\* itemGroups[mark.item][mark.type] = mark
GroupStore(g, marks, i) ==
  [keys |-> IF marks[i].item \in SeqRange(g.keys) THEN g.keys ELSE Append(g.keys, marks[i].item),
   grp  |-> [g.grp EXCEPT ![marks[i].item][marks[i].type] = i]]

\* marks.forEach(mark => ...)
RECURSIVE GroupFrom(_, _, _)
GroupFrom(marks, i, g) ==
  IF i > Len(marks) THEN g ELSE GroupFrom(marks, i + 1, GroupStore(g, marks, i))

itemGroups(marks) == GroupFrom(marks, 1, EmptyGroups)

MathMin(a, b) == IF a <= b THEN a ELSE b

\* variant: a marked quantity box doubles the quantity
LineQuantityTwo(marks, q) == IF q # 0 /\ marks[q].isMarked THEN 2 ELSE 1

\* const quantity = quantityMark && quantityMark.isMarked ? 1 : 1
LineQuantity(marks, q) == IF q # 0 /\ marks[q].isMarked THEN 1 ELSE 1

\* variant: the stronger of the two confidences
LineConfidenceMax(marks, s, q) ==
  IF q # 0 /\ marks[q].confidence > marks[s].confidence
  THEN marks[q].confidence ELSE marks[s].confidence

\* Math.min(selectionMark.confidence, quantityMark ? quantityMark.confidence : 1.0)
LineConfidence(marks, s, q) ==
  MathMin(marks[s].confidence, IF q # 0 THEN marks[q].confidence ELSE ConfScale)

\* if (selectionMark && selectionMark.isMarked)
IsSelected(marks, s) == s # 0 /\ marks[s].isMarked

OrderLine(marks, itemName, s, q) ==
  [item_name |-> itemName,
   quantity |-> LineQuantity(marks, q),
   confidence |-> LineConfidence(marks, s, q)]

\* for (const [itemName, itemMarks] of Object.entries(itemGroups))
RECURSIVE LinesFrom(_, _, _, _)
LinesFrom(marks, g, k, acc) ==
  IF k > Len(g.keys) THEN acc
  ELSE LET itemName == g.keys[k]
           q == g.grp[itemName]["quantity"]
           s == g.grp[itemName]["selection"]
       IN  LinesFrom(marks, g, k + 1,
                     IF IsSelected(marks, s)
                     THEN Append(acc, OrderLine(marks, itemName, s, q))
                     ELSE acc)

orderItemsOf(marks) == LinesFrom(marks, itemGroups(marks), 1, <<>>)

ExResult(success, error, orderItems, omrData) ==
  [success |-> success, error |-> error, orderItems |-> orderItems, omrData |-> omrData]

\* variant: the failure carries an empty object as omrData
extractCatchObject(message) == ExResult(FALSE, message, <<>>, ObjJson("absent", "absent", <<>>))

\* the catch block of extractOrderFromOMR
extractCatch(message) == ExResult(FALSE, message, <<>>, NullJson)

\* variant: a result without marks also counts as failed
upstreamFailedNoMarks(result) ==
  \/ ~result.success
  \/ result.data.success # "true"
  \/ (result.data.marksKind = "list" /\ result.data.marks = <<>>)

\* if (!result.success || !result.data.success), for result.data not null
upstreamFailed(result) == ~result.success \/ result.data.success # "true"

\* the body of extractOrderFromOMR after processImage has settled with pi
extractFrom(pi) ==
  IF pi.rejected THEN extractCatch(MsgSpawn)
  ELSE LET result == pi.value
       IN  IF result.success /\ result.data.kind = "null" THEN extractCatch(MsgNullProp)
           ELSE IF upstreamFailed(result)
           THEN extractCatch(IF result.error # NoError THEN result.error ELSE MsgOMRFailed)
           ELSE IF result.data.marksKind = "absent" THEN extractCatch(MsgUndefProp)
           ELSE IF result.data.marksKind = "notlist" THEN extractCatch(MsgNotFn)
           ELSE ExResult(TRUE, NoError, orderItemsOf(result.data.marks), result.data)

\* extractOrderFromOMR(imagePath)
extractOrderFromOMR(exists, proc) ==
  LET pi == processImage(exists, proc)
  IN  Settled(FALSE, pi.spawned, extractFrom(pi))

-----------------------------------------------------------------------------
(* State of the server (routes/omr.js, config/database.js) *)

Reqs == 1..NumReqs

PI0 == Settled(FALSE, FALSE, PIResult(FALSE, NoError, NullJson))

EX0 == Settled(FALSE, FALSE, ExResult(FALSE, NoError, <<>>, NullJson))

NoResponse == [status |-> 0, success |-> FALSE, message |-> NoError, data |-> NullJson]

\* no Python process: what spawn gives before any process has run
NoProc == ProcOutcome("error", 1, BadStdout)

\* proc: the run of the Python process that the handler is waiting for
IdleReq ==
  [pc |-> "idle", route |-> "process", hasFile |-> FALSE, proc |-> NoProc, ex |-> EX0,
   k |-> 0, orderId |-> 0, totalAmount |-> 0, menuItem |-> 0, unitPrice |-> 0,
   error |-> NoError, unlinkTried |-> FALSE, response |-> NoResponse]

-----------------------------------------------------------------------------
(* State of a request to routes/menu.js, routes/orders.js or server.js *)

ApiReqs == 1..NumApi

ApiOps ==
  {"GET /", "GET /api", "GET /api/orders", "GET /api/orders/:id", "POST /api/orders",
   "PUT /api/orders/:id/status", "GET /api/menu/:id", "POST /api/menu",
   "PUT /api/menu/:id", "DELETE /api/menu/:id"}

\* an id that no row ever has
NoSuchId == 99999

\* req.params.id: the first row of a table, or no row
Ids == {1, NoSuchId}

\* req.body, with every field that one of the schemas reads
EmptyBody == [name |-> "", price |-> 0, is_available |-> FALSE, items |-> <<>>, status |-> ""]

\* bodies of POST /api/menu and PUT /api/menu/:id: the invalid body of the
\* tests, a new item, and the first sample item switched off
MenuBodies ==
  {[EmptyBody EXCEPT !.name = "", !.price = -10],
   [EmptyBody EXCEPT !.name = "halo", !.price = 10, !.is_available = TRUE],
   [EmptyBody EXCEPT !.name = "isda", !.price = 150, !.is_available = FALSE]}

\* items of POST /api/orders: none, the order of the tests, two items, and an
\* order whose second item does not exist
OrderItemLists ==
  {<<>>,
   <<[menu_item_id |-> 1, quantity |-> 2]>>,
   <<[menu_item_id |-> 1, quantity |-> 1], [menu_item_id |-> 2, quantity |-> 1]>>,
   <<[menu_item_id |-> 2, quantity |-> 1], [menu_item_id |-> NoSuchId, quantity |-> 1]>>}

\* variant: the schema also lets 'completed' through
OrderStatusesAndCompleted ==
  {"pending", "preparing", "ready", "served", "cancelled", "completed"}

\* schemas.orderUpdate: Joi.string().valid(...)
OrderStatuses == {"pending", "preparing", "ready", "served", "cancelled"}

\* status values of PUT /api/orders/:id/status: two valid ones and two others
StatusInputs == {"preparing", "served", "completed", ""}

\* params and body that a request to op carries
ApiInputs(op) ==
  CASE op \in {"GET /", "GET /api", "GET /api/orders"} ->
         {[id |-> 0, body |-> EmptyBody]}
    [] op \in {"GET /api/orders/:id", "GET /api/menu/:id", "DELETE /api/menu/:id"} ->
         {[id |-> i, body |-> EmptyBody] : i \in Ids}
    [] op = "POST /api/orders" ->
         {[id |-> 0, body |-> [EmptyBody EXCEPT !.items = l]] : l \in OrderItemLists}
    [] op = "PUT /api/orders/:id/status" ->
         {[id |-> i, body |-> [EmptyBody EXCEPT !.status = st]] : i \in Ids, st \in StatusInputs}
    [] op = "POST /api/menu" ->
         {[id |-> 0, body |-> b] : b \in MenuBodies}
    [] op = "PUT /api/menu/:id" ->
         {[id |-> i, body |-> b] : i \in Ids, b \in MenuBodies}

MsgValidation == "Validation Error"
MsgWentWrong == "Something went wrong!"
MsgOrderNotFound == "Order not found"
MsgMenuNotFound == "Menu item not found"
MsgCannotDelete == "Cannot delete menu item"
MsgApiInfo == "OMR POS Backend API"
MsgOrdersDisabled == "Orders temporarily disabled for testing"

\* no response sent; json: the body is JSON, endpoints: it has an endpoints
\* field, count: its count field, -1 when it has none
NoApiResponse ==
  [status |-> 0, json |-> FALSE, success |-> "absent", error |-> NoError,
   message |-> NoError, endpoints |-> FALSE, data |-> <<>>, count |-> -1]

\* res.status(status).json({success, error, message, data})
JsonResponse(status, success, error, message, data) ==
  [NoApiResponse EXCEPT !.status = status, !.json = TRUE, !.success = success,
                        !.error = error, !.message = message, !.data = data]

IdleApi ==
  [pc |-> "idle", op |-> "GET /", id |-> 0, body |-> EmptyBody, k |-> 0, resultId |-> 0,
   totalAmount |-> 0, unitPrice |-> 0, response |-> NoApiResponse]

\* the response is sent: the handler is finished and its locals are gone
ApiRespond(rq, response) ==
  [IdleApi EXCEPT !.pc = "done", !.op = rq.op, !.id = rq.id, !.body = rq.body,
                  !.response = response]

\* a number of the client as the fraction num / den
Frac(num, den) == [num |-> num, den |-> den]

\* the page of the client before anything is shown
IdleClient == [view |-> "upload", confidence |-> Frac(0, 1), confidencePercent |-> 0]

\* the layout model has not been asked
NoLayout == [pc |-> "idle", width |-> 0, height |-> 0, first |-> <<>>, second |-> <<>>]

\* the mark scorer has not been asked
NoScore ==
  [pc |-> "idle", x |-> 0, y |-> 0, size |-> 0, threshold |-> 0, total |-> 0,
   foreground |-> 0, isMarked |-> FALSE, confidence |-> Frac(0, 1), inked |-> FALSE]

\* image files the user can pick; NoFile stands for null
Files == {1, 2}

NoFile == 0

\* const API_BASE_URL = 'http://localhost:3001', and another URL the user may
\* type into the settings; NoUrl stands for an absent value
DefaultApiUrl == "http://localhost:3001"

ApiUrls == {DefaultApiUrl, "http://pos.local:3001"}

NoUrl == ""

\* a request of the client that awaits its response: the function that sent
\* it, the file appended to its form data, the processing result handed to
\* the function (its file; NoFile for none) and the URL it was sent to
ClientRequest(fn, file, data, url) == [fn |-> fn, file |-> file, data |-> data, url |-> url]

\* the last fetch of loadOrders or loadHistory
Fetch(fn, url) == [fn |-> fn, url |-> url]

\* the client after the script has loaded and DOMContentLoaded has run with
\* what localStorage holds: the script variables (currentProcessingData is
\* the file whose result it holds), the binding API_BASE_URL, the property
\* window.API_BASE_URL, the overlay, and the fetches of loadInitialData
LoadedUi(savedApiUrl, autoProcess) ==
  [selectedFile |-> NoFile, currentProcessingData |-> NoFile, loading |-> FALSE,
   inflight |-> <<>>, API_BASE_URL |-> DefaultApiUrl, windowApiBaseUrl |-> NoUrl,
   savedApiUrl |-> savedApiUrl, autoProcess |-> autoProcess,
   lastFetch |-> Fetch("loadHistory", DefaultApiUrl)]

\* the client on its first load, with nothing in localStorage
IdleUi == LoadedUi(NoUrl, FALSE)

\* the server process in its steady state: listening, db.connect() completed
Started == [pc |-> "connected", fresh |-> FALSE]

\* the server process when the callback of app.listen has reached
\* await db.connect(): the port is open and the database file is being
\* opened; fresh: the file did not exist, so it has no tables yet
Listening(fresh) == [pc |-> "opening", fresh |-> fresh]

\* insertSampleData, restricted to the items of Vocab
SampleMenu ==
  {[id |-> 1, name |-> "isda", price |-> 150, is_available |-> TRUE],
   [id |-> 2, name |-> "egg", price |-> 25, is_available |-> TRUE]}

ServerInit ==
  /\ pythonProcessorReady = FALSE
  /\ initPc = "checking"
  /\ files = {}
  /\ req = [r \in Reqs |-> IdleReq]
  /\ orders = <<>>
  /\ order_items = <<>>
  /\ omr_forms = <<>>
  /\ menu_items = SampleMenu
  /\ api = [a \in ApiReqs |-> IdleApi]
  /\ menu_seq = Cardinality(SampleMenu)
  /\ client = IdleClient
  /\ layout = NoLayout
  /\ scorer = NoScore
  /\ ui = IdleUi

-----------------------------------------------------------------------------
(* Direct calls of the wrapper, over every engine output within the bounds *)

JsonFailures ==
  {NullJson} \cup {ObjJson(s, k, <<>>) : s \in {"true", "false", "absent"}, k \in {"absent", "notlist"}}
             \cup {ObjJson(s, "list", <<>>) : s \in {"false", "absent"}}

\* runs that end without a usable list of marks
FailingProcs ==
  {ProcOutcome("error", 1, BadStdout), ProcOutcome("error-close", 1, BadStdout),
   ProcOutcome("close", 1, BadStdout),
   ProcOutcome("close", 0, BadStdout)}
    \cup {ProcOutcome("close", 0, GoodStdout(v)) : v \in JsonFailures}

\* a run that prints a successful result with the list of marks m
MarksProc(m) == ProcOutcome("close", 0, GoodStdout(ObjJson("true", "list", m)))

IdleCall ==
  [pc |-> "idle", exists |-> FALSE, proc |-> ProcOutcome("error", 1, BadStdout),
   pi |-> PI0, ex |-> EX0]

InitExtract ==
  /\ ServerInit
  /\ boot = Started
  /\ \/ call = [IdleCall EXCEPT !.pc = "start", !.exists = FALSE]
     \/ \E proc \in FailingProcs :
          call = [IdleCall EXCEPT !.pc = "start", !.exists = TRUE, !.proc = proc]
     \/ \E n \in 0..MaxMarks : \E m \in [1..n -> Mark] :
          call = [IdleCall EXCEPT !.pc = "start", !.exists = TRUE, !.proc = MarksProc(m)]

\* await pythonOMRProcessor.processImage(imagePath)
CallProcessImage ==
  /\ call.pc = "start"
  /\ call' = [call EXCEPT !.pc = "processed", !.pi = processImage(call.exists, call.proc)]
  /\ UNCHANGED serverVars

\* await pythonOMRProcessor.extractOrderFromOMR(imagePath)
CallExtractOrder ==
  /\ call.pc = "start"
  /\ call' = [call EXCEPT !.pc = "extracted",
                          !.pi = processImage(call.exists, call.proc),
                          !.ex = extractOrderFromOMR(call.exists, call.proc)]
  /\ UNCHANGED serverVars

NextExtract == CallProcessImage \/ CallExtractOrder

ExtractSpec == InitExtract /\ [][NextExtract]_vars

-----------------------------------------------------------------------------
(* routes/omr.js: initialisation of the processor and the two POST routes *)

MsgNoFile == "No image file provided"
MsgNotAvailable == "Python OMR processor not available"
MsgPythonFailed == "Python processing failed"
MsgNoSelections == "No valid selections found in the form"
MsgDbError == "SQLITE_ERROR"
MsgProcessed == "OMR processing completed successfully using Python OpenCV"
MsgOrderCreated == "Order created from OMR form successfully using Python OpenCV"

Routes == {"process", "process-to-order"}

\* engine outputs seen by the routes: a form with a quantity box but no
\* selection marked, and a form with two items selected
ServerMarkLists ==
  {<<[item |-> "isda", type |-> "quantity", isMarked |-> TRUE, confidence |-> ConfScale],
     [item |-> "isda", type |-> "selection", isMarked |-> FALSE, confidence |-> 0]>>,
   <<[item |-> "isda", type |-> "selection", isMarked |-> TRUE, confidence |-> ConfScale],
     [item |-> "egg", type |-> "selection", isMarked |-> TRUE, confidence |-> ConfScale]>>}

ServerProcs ==
  {ProcOutcome("error", 1, BadStdout), ProcOutcome("close", 1, BadStdout),
   ProcOutcome("close", 0, BadStdout), ProcOutcome("close", 0, GoodStdout(NullJson)),
   ProcOutcome("close", 0, GoodStdout(ObjJson("false", "absent", <<>>))),
   ProcOutcome("close", 0, GoodStdout(ObjJson("true", "absent", <<>>)))}
    \cup {ProcOutcome("close", 0, GoodStdout(ObjJson("true", "list", m))) : m \in ServerMarkLists}

\* data: the engine result whose marks, confidence, ... the body is built from
Response(status, success, message, data) ==
  [status |-> status, success |-> success, message |-> message, data |-> data]

\* res.status(..).json(..): the handler is finished and its locals are gone
Respond(rq, status, success, message, data) ==
  [IdleReq EXCEPT !.pc = "done", !.route = rq.route, !.hasFile = rq.hasFile,
                  !.response = Response(status, success, message, data)]

\* control enters the catch block of the route with error.message = message;
\* the locals of the try block are out of scope there
Throw(rq, message) ==
  [IdleReq EXCEPT !.pc = "catch", !.route = rq.route, !.hasFile = rq.hasFile,
                  !.error = message]

\* pythonOMRProcessor.initialize(): checkPythonEnvironment
CheckPythonEnvironment ==
  /\ initPc = "checking"
  /\ \E ok \in BOOLEAN : initPc' = IF ok THEN "installing" ELSE "failed"
  /\ UNCHANGED <<otherVars, call, pythonProcessorReady, files, req, orders, order_items, omr_forms, menu_items>>

\* variant: the flag is set however initialize() settles
initializeFinally(resolved, ready) == TRUE

\* .then(() => { pythonProcessorReady = true }).catch(...): the flag is set
\* when initialize() resolved and left alone when it rejected
initializeThen(resolved, ready) == IF resolved THEN TRUE ELSE ready

\* installPythonDependencies, then the .then / .catch of the start-up call
InstallPythonDependencies ==
  /\ initPc = "installing"
  /\ \E ok \in BOOLEAN :
       /\ initPc' = IF ok THEN "ready" ELSE "failed"
       /\ pythonProcessorReady' = initializeThen(ok, pythonProcessorReady)
  /\ UNCHANGED <<otherVars, call, files, req, orders, order_items, omr_forms, menu_items>>

\* upload.single('image'): multer stores the uploaded file under a fresh name
Upload(r) ==
  /\ req[r].pc = "idle"
  /\ \E route \in Routes, hasFile \in BOOLEAN :
       /\ req' = [req EXCEPT ![r] = [@ EXCEPT !.pc = "handler", !.route = route, !.hasFile = hasFile]]
       /\ files' = IF hasFile THEN files \cup {r} ELSE files
  /\ UNCHANGED <<otherVars, call, pythonProcessorReady, initPc, orders, order_items, omr_forms, menu_items>>

\* the handler up to its first await, where the wrapper starts the Python process
HandlerStart(r) ==
  /\ req[r].pc = "handler"
  /\ \E proc \in ServerProcs :
       req' = [req EXCEPT ![r] =
         IF ~@.hasFile THEN Respond(@, 400, FALSE, MsgNoFile, NullJson)
         ELSE IF pythonProcessorReady THEN [@ EXCEPT !.pc = "engine", !.proc = proc]
         ELSE Throw(@, MsgNotAvailable)]
  /\ UNCHANGED <<otherVars, call, pythonProcessorReady, initPc, files, orders, order_items, omr_forms, menu_items>>

\* variant: the wrapper removes the image it has processed
filesAfterEngineUnlink(fs, imagePath) == fs \ {imagePath}

\* fs.access(imagePath) and the Python process only read the image
filesAfterEngine(fs, imagePath) == fs

\* POST /process after await processImage(imagePath)
processAfterEngine(rq, pi) ==
  IF pi.value.success
  THEN IF pi.value.data.kind = "null"
       THEN Throw(rq, MsgNullProp)
       ELSE Respond(rq, 200, TRUE, MsgProcessed, pi.value.data)
  ELSE Throw(rq, MsgPythonFailed)

ProcessEngine(r) ==
  /\ req[r].pc = "engine"
  /\ req[r].route = "process"
  /\ req' = [req EXCEPT ![r] = processAfterEngine(@, processImage(r \in files, @.proc))]
  /\ files' = filesAfterEngine(files, r)
  /\ UNCHANGED <<otherVars, call, pythonProcessorReady, initPc, orders, order_items, omr_forms, menu_items>>

\* variant: the route creates the order without looking at the number of lines
processToOrderNoEmptyCheck(rq, ex) ==
  IF ex.value.success
  THEN [rq EXCEPT !.ex = ex, !.pc = "insertOrder"]
  ELSE Throw(rq, MsgPythonFailed)

\* POST /process-to-order after await extractOrderFromOMR(imagePath)
processToOrderAfterEngine(rq, ex) ==
  IF ex.value.success
  THEN IF Len(ex.value.orderItems) = 0
       THEN Respond(rq, 400, FALSE, MsgNoSelections, NullJson)
       ELSE [rq EXCEPT !.ex = ex, !.pc = "insertOrder"]
  ELSE Throw(rq, MsgPythonFailed)

ProcessToOrderEngine(r) ==
  /\ req[r].pc = "engine"
  /\ req[r].route = "process-to-order"
  /\ req' = [req EXCEPT ![r] =
       processToOrderAfterEngine(@, extractOrderFromOMR(r \in files, @.proc))]
  /\ files' = filesAfterEngine(files, r)
  /\ UNCHANGED <<otherVars, call, pythonProcessorReady, initPc, orders, order_items, omr_forms, menu_items>>

\* catch (error): await fs.unlink(imagePath), which may itself fail, then 500
filesAfterUnlink(fs, imagePath, ok) == IF ok THEN fs \ {imagePath} ELSE fs

Catch(r) ==
  /\ req[r].pc = "catch"
  /\ \E ok \in BOOLEAN : files' = filesAfterUnlink(files, r, ok)
  /\ req' = [req EXCEPT ![r] = [Respond(@, 500, FALSE, @.error, NullJson) EXCEPT !.unlinkTried = TRUE]]
  /\ UNCHANGED <<otherVars, call, pythonProcessorReady, initPc, orders, order_items, omr_forms, menu_items>>

\* this.lastID of an INTEGER PRIMARY KEY AUTOINCREMENT table
NextId(table) == Len(table) + 1

\* SELECT * FROM menu_items WHERE name = ? (name is UNIQUE); 0 stands for no row
MenuItemByName(name) == {m \in menu_items : m.name = name}

\* the for loop over omrResult.orderItems: the next await after item k
AfterItem(rq) ==
  IF rq.k + 1 > Len(rq.ex.value.orderItems)
  THEN [rq EXCEPT !.k = @ + 1, !.pc = "updateTotal"]
  ELSE [rq EXCEPT !.k = @ + 1, !.pc = "getMenuItem"]

\* await db.run('INSERT INTO orders ...'); a database call may reject
InsertOrder(r) ==
  /\ req[r].pc = "insertOrder"
  /\ \E ok \in BOOLEAN :
       IF ok
       THEN /\ orders' = Append(orders, [id |-> NextId(orders), order_number |-> "OMR",
                                         status |-> "pending", total_amount |-> 0])
            /\ req' = [req EXCEPT ![r] = [@ EXCEPT !.pc = "getMenuItem", !.k = 1,
                                                   !.orderId = NextId(orders), !.totalAmount = 0]]
       ELSE /\ req' = [req EXCEPT ![r] = Throw(@, MsgDbError)]
            /\ UNCHANGED orders
  /\ UNCHANGED <<otherVars, call, pythonProcessorReady, initPc, files, order_items, omr_forms, menu_items>>

\* await db.get('SELECT * FROM menu_items WHERE name = ?'), then the price computation
GetMenuItem(r) ==
  /\ req[r].pc = "getMenuItem"
  /\ \E ok \in BOOLEAN :
       req' = [req EXCEPT ![r] =
         IF ~ok THEN Throw(@, MsgDbError)
         ELSE LET item == @.ex.value.orderItems[@.k]
                  found == MenuItemByName(item.item_name)
              IN  IF found = {} THEN AfterItem(@)
                  ELSE LET menuItem == CHOOSE m \in found : TRUE
                       IN  [@ EXCEPT !.pc = "insertItem", !.menuItem = menuItem.id,
                                     !.unitPrice = menuItem.price,
                                     !.totalAmount = @ + menuItem.price * item.quantity]]
  /\ UNCHANGED <<otherVars, call, pythonProcessorReady, initPc, files, orders, order_items, omr_forms, menu_items>>

\* await db.run('INSERT INTO order_items ...')
InsertItem(r) ==
  /\ req[r].pc = "insertItem"
  /\ \E ok \in BOOLEAN :
       IF ok
       THEN /\ order_items' = Append(order_items,
                 [id |-> NextId(order_items), order_id |-> req[r].orderId,
                  menu_item_id |-> req[r].menuItem,
                  quantity |-> req[r].ex.value.orderItems[req[r].k].quantity,
                  unit_price |-> req[r].unitPrice])
            /\ req' = [req EXCEPT ![r] = AfterItem(@)]
       ELSE /\ req' = [req EXCEPT ![r] = Throw(@, MsgDbError)]
            /\ UNCHANGED order_items
  /\ UNCHANGED <<otherVars, call, pythonProcessorReady, initPc, files, orders, omr_forms, menu_items>>

\* await db.run('UPDATE orders SET total_amount = ? WHERE id = ?')
UpdateTotal(r) ==
  /\ req[r].pc = "updateTotal"
  /\ \E ok \in BOOLEAN :
       IF ok
       THEN /\ orders' = [i \in 1..Len(orders) |->
                            IF orders[i].id = req[r].orderId
                            THEN [orders[i] EXCEPT !.total_amount = req[r].totalAmount]
                            ELSE orders[i]]
            /\ req' = [req EXCEPT ![r] = [@ EXCEPT !.pc = "insertForm"]]
       ELSE /\ req' = [req EXCEPT ![r] = Throw(@, MsgDbError)]
            /\ UNCHANGED orders
  /\ UNCHANGED <<otherVars, call, pythonProcessorReady, initPc, files, order_items, omr_forms, menu_items>>

\* await db.run('INSERT INTO omr_forms ...')
InsertForm(r) ==
  /\ req[r].pc = "insertForm"
  /\ \E ok \in BOOLEAN :
       IF ok
       THEN /\ omr_forms' = Append(omr_forms, [id |-> NextId(omr_forms), image_path |-> r])
            /\ req' = [req EXCEPT ![r] = [@ EXCEPT !.pc = "getOrder"]]
       ELSE /\ req' = [req EXCEPT ![r] = Throw(@, MsgDbError)]
            /\ UNCHANGED omr_forms
  /\ UNCHANGED <<otherVars, call, pythonProcessorReady, initPc, files, orders, order_items, menu_items>>

\* await db.get('SELECT o.*, ... WHERE o.id = ?'), then res.status(201)
GetOrder(r) ==
  /\ req[r].pc = "getOrder"
  /\ \E ok \in BOOLEAN :
       req' = [req EXCEPT ![r] =
         IF ok THEN Respond(@, 201, TRUE, MsgOrderCreated, @.ex.value.omrData)
         ELSE Throw(@, MsgDbError)]
  /\ UNCHANGED <<otherVars, call, pythonProcessorReady, initPc, files, orders, order_items, omr_forms, menu_items>>

-----------------------------------------------------------------------------
(* middleware/validation.js, server.js, routes/orders.js and routes/menu.js. *)
(* A database call of these routes fails only where a constraint of the     *)
(* schema makes it fail.                                                    *)

\* what the menu and order routes never touch
nonApiVars == <<call, pythonProcessorReady, initPc, files, req, omr_forms, client, layout, scorer, ui, boot>>

\* the schema that the route hands to validate, "none" for a route without one
schemaOf(op) ==
  CASE op \in {"POST /api/menu", "PUT /api/menu/:id"} -> "menuItem"
    [] op = "POST /api/orders" -> "order"
    [] op = "PUT /api/orders/:id/status" -> "orderUpdate"
    [] OTHER -> "none"

\* variant: every body passes
validateAny(schema, body) == TRUE

\* schema.validate(req.body) reports no error (the names and numbers of the
\* bodies are within the length and precision limits of the schemas)
validate(schema, body) ==
  CASE schema = "menuItem" -> body.name # "" /\ body.price > 0
    [] schema = "order" ->
         /\ Len(body.items) >= 1
         /\ \A i \in 1..Len(body.items) :
              body.items[i].menu_item_id > 0 /\ body.items[i].quantity > 0
    [] schema = "orderUpdate" -> body.status \in OrderStatuses
    [] OTHER -> TRUE

\* validate: res.status(400).json({error: 'Validation Error', details})
ValidationError == JsonResponse(400, "absent", MsgValidation, NoError, <<>>)

\* server.js app.use((err, req, res, next) => ...): the only error middleware
\* the application installs; asyncHandler passes every rejection to it
errorMiddleware(rq, message) ==
  ApiRespond(rq, JsonResponse(500, "absent", MsgWentWrong, message, <<>>))

\* variant: a missing row is answered like a found one
notFoundAsOk(message) == JsonResponse(200, "true", NoError, NoError, <<>>)

\* res.status(404).json({success: false, error: message})
notFound(message) == JsonResponse(404, "false", message, NoError, <<>>)

\* the first await of the handler of op
FirstAwait(op) ==
  CASE op = "GET /api/orders/:id" -> "getOrder"
    [] op = "POST /api/orders" -> "insertOrder"
    [] op = "PUT /api/orders/:id/status" -> "getExistingOrder"
    [] op = "GET /api/menu/:id" -> "getMenuItem"
    [] op = "POST /api/menu" -> "insertMenuItem"
    [] op = "PUT /api/menu/:id" -> "getExistingItem"
    [] op = "DELETE /api/menu/:id" -> "getItemToDelete"

\* GET /api/orders: data: [] whatever the table holds
ordersList(os) == <<>>

\* the handler up to its first await; indexExists: public/index.html is there
handlerStart(rq, indexExists) ==
  CASE rq.op = "GET /" ->
         IF indexExists THEN ApiRespond(rq, [NoApiResponse EXCEPT !.status = 200])
         ELSE errorMiddleware(rq, MsgENOENT)
    [] rq.op = "GET /api" ->
         ApiRespond(rq, [JsonResponse(200, "absent", NoError, MsgApiInfo, <<>>)
                           EXCEPT !.endpoints = TRUE])
    [] rq.op = "GET /api/orders" ->
         ApiRespond(rq, [JsonResponse(200, "true", NoError, MsgOrdersDisabled, ordersList(orders))
                           EXCEPT !.count = Len(ordersList(orders))])
    [] OTHER -> [rq EXCEPT !.pc = FirstAwait(rq.op)]

\* a request arrives (the requests of the model stay below the limit of the
\* rate limiter): the validate middleware, then the handler
ApiReceive(a) ==
  /\ api[a].pc = "idle"
  /\ \E op \in ApiOps, indexExists \in BOOLEAN :
       \E inp \in ApiInputs(op) :
         LET rq == [IdleApi EXCEPT !.op = op, !.id = inp.id, !.body = inp.body]
         IN  api' = [api EXCEPT ![a] =
                       IF validate(schemaOf(op), inp.body) THEN handlerStart(rq, indexExists)
                       ELSE ApiRespond(rq, ValidationError)]
  /\ UNCHANGED <<nonApiVars, orders, order_items, menu_items, menu_seq>>

(* routes/orders.js *)

MsgOrderCreatedApi == "Order created successfully"
MsgStatusUpdated == "Order status updated successfully"
MsgItemUnavailable == "Menu item not found or unavailable"

\* SELECT ... FROM orders WHERE id = ?: the rows found (ids are 1..Len(orders))
OrderById(id) == IF id \in 1..Len(orders) THEN <<orders[id]>> ELSE <<>>

\* GET /api/orders/:id: await db.get(...), 404 when there is no such order
OrdersGetById(a) ==
  /\ api[a].pc = "getOrder"
  /\ api' = [api EXCEPT ![a] =
       IF OrderById(@.id) = <<>>
       THEN ApiRespond(@, notFound(MsgOrderNotFound))
       ELSE ApiRespond(@, JsonResponse(200, "true", NoError, NoError, OrderById(@.id)))]
  /\ UNCHANGED <<nonApiVars, orders, order_items, menu_items, menu_seq>>

\* POST /api/orders: await db.run('INSERT INTO orders ...'); status and
\* total_amount take their defaults
OrdersPostInsert(a) ==
  /\ api[a].pc = "insertOrder"
  /\ orders' = Append(orders, [id |-> NextId(orders), order_number |-> "ORD",
                               status |-> "pending", total_amount |-> 0])
  /\ api' = [api EXCEPT ![a] = [@ EXCEPT !.pc = "getItem", !.k = 1,
                                         !.resultId = NextId(orders), !.totalAmount = 0]]
  /\ UNCHANGED <<nonApiVars, order_items, menu_items, menu_seq>>

\* SELECT * FROM menu_items WHERE id = ? AND is_available = 1
AvailableItemById(id) == {m \in menu_items : m.id = id /\ m.is_available}

\* variant: the price of a line ignores its quantity
lineTotalUnit(unitPrice, quantity) == unitPrice

\* const totalPrice = unitPrice * item.quantity
lineTotal(unitPrice, quantity) == unitPrice * quantity

\* for (const item of items): await db.get(menu item); a missing or
\* unavailable item throws, and the rows written so far stay
OrdersPostGetItem(a) ==
  /\ api[a].pc = "getItem"
  /\ api' = [api EXCEPT ![a] =
       LET item == @.body.items[@.k]
           found == AvailableItemById(item.menu_item_id)
       IN  IF found = {} THEN errorMiddleware(@, MsgItemUnavailable)
           ELSE LET menuItem == CHOOSE m \in found : TRUE
                IN  [@ EXCEPT !.pc = "insertItem", !.unitPrice = menuItem.price,
                              !.totalAmount = @ + lineTotal(menuItem.price, item.quantity)]]
  /\ UNCHANGED <<nonApiVars, orders, order_items, menu_items, menu_seq>>

\* await db.run('INSERT INTO order_items ...'), then the next item
OrdersPostInsertItem(a) ==
  /\ api[a].pc = "insertItem"
  /\ order_items' = Append(order_items,
       [id |-> NextId(order_items), order_id |-> api[a].resultId,
        menu_item_id |-> api[a].body.items[api[a].k].menu_item_id,
        quantity |-> api[a].body.items[api[a].k].quantity,
        unit_price |-> api[a].unitPrice])
  /\ api' = [api EXCEPT ![a] =
       [@ EXCEPT !.k = @ + 1,
                 !.pc = IF api[a].k + 1 > Len(api[a].body.items) THEN "updateTotal"
                        ELSE "getItem"]]
  /\ UNCHANGED <<nonApiVars, orders, menu_items, menu_seq>>

\* UPDATE orders SET column = value WHERE id = ?
OrdersWith(id, column, value) ==
  [i \in 1..Len(orders) |->
     IF orders[i].id = id THEN [orders[i] EXCEPT ![column] = value] ELSE orders[i]]

\* await db.run('UPDATE orders SET total_amount = ? WHERE id = ?')
OrdersPostUpdateTotal(a) ==
  /\ api[a].pc = "updateTotal"
  /\ orders' = OrdersWith(api[a].resultId, "total_amount", api[a].totalAmount)
  /\ api' = [api EXCEPT ![a] = [@ EXCEPT !.pc = "getComplete"]]
  /\ UNCHANGED <<nonApiVars, order_items, menu_items, menu_seq>>

\* await db.get(complete order), then res.status(201)
OrdersPostGetComplete(a) ==
  /\ api[a].pc = "getComplete"
  /\ api' = [api EXCEPT ![a] =
       ApiRespond(@, JsonResponse(201, "true", NoError, MsgOrderCreatedApi,
                                  OrderById(@.resultId)))]
  /\ UNCHANGED <<nonApiVars, orders, order_items, menu_items, menu_seq>>

\* PUT /api/orders/:id/status: await db.get(existing order), 404 when missing
OrdersPutStatusGetExisting(a) ==
  /\ api[a].pc = "getExistingOrder"
  /\ api' = [api EXCEPT ![a] =
       IF OrderById(@.id) = <<>>
       THEN ApiRespond(@, notFound(MsgOrderNotFound))
       ELSE [@ EXCEPT !.pc = "updateStatus"]]
  /\ UNCHANGED <<nonApiVars, orders, order_items, menu_items, menu_seq>>

\* await db.run('UPDATE orders SET status = ? ... WHERE id = ?')
OrdersPutStatusUpdate(a) ==
  /\ api[a].pc = "updateStatus"
  /\ orders' = OrdersWith(api[a].id, "status", api[a].body.status)
  /\ api' = [api EXCEPT ![a] = [@ EXCEPT !.pc = "getUpdatedOrder"]]
  /\ UNCHANGED <<nonApiVars, order_items, menu_items, menu_seq>>

\* await db.get(updated order), then res.json
OrdersPutStatusGetUpdated(a) ==
  /\ api[a].pc = "getUpdatedOrder"
  /\ api' = [api EXCEPT ![a] =
       ApiRespond(@, JsonResponse(200, "true", NoError, MsgStatusUpdated, OrderById(@.id)))]
  /\ UNCHANGED <<nonApiVars, orders, order_items, menu_items, menu_seq>>

Init == ServerInit /\ call = IdleCall /\ boot = Started

(* routes/menu.js *)

MsgItemCreated == "Menu item created successfully"
MsgItemUpdated == "Menu item updated successfully"
MsgItemDeleted == "Menu item deleted successfully"
MsgUnique == "SQLITE_CONSTRAINT: UNIQUE constraint failed: menu_items.name"

\* SELECT * FROM menu_items WHERE id = ?: the rows found, as a list
MenuItemById(id) ==
  IF \E m \in menu_items : m.id = id
  THEN <<CHOOSE m \in menu_items : m.id = id>>
  ELSE <<>>

\* name TEXT NOT NULL UNIQUE: a row other than id already has the name
NameTaken(name, id) == \E m \in menu_items : m.name = name /\ m.id # id

\* GET /api/menu/:id: await db.get(...), 404 when there is no such item
MenuGetById(a) ==
  /\ api[a].pc = "getMenuItem"
  /\ api' = [api EXCEPT ![a] =
       IF MenuItemById(@.id) = <<>>
       THEN ApiRespond(@, notFound(MsgMenuNotFound))
       ELSE ApiRespond(@, JsonResponse(200, "true", NoError, NoError, MenuItemById(@.id)))]
  /\ UNCHANGED <<nonApiVars, orders, order_items, menu_items, menu_seq>>

\* POST /api/menu: await db.run('INSERT INTO menu_items ...'); with a name
\* that exists the run rejects and the rejection goes to the error middleware
MenuPostInsert(a) ==
  /\ api[a].pc = "insertMenuItem"
  /\ IF NameTaken(api[a].body.name, 0)
     THEN /\ api' = [api EXCEPT ![a] = errorMiddleware(@, MsgUnique)]
          /\ UNCHANGED <<menu_items, menu_seq>>
     ELSE /\ menu_items' = menu_items \cup
               {[id |-> menu_seq + 1, name |-> api[a].body.name, price |-> api[a].body.price,
                 is_available |-> api[a].body.is_available]}
          /\ menu_seq' = menu_seq + 1
          /\ api' = [api EXCEPT ![a] = [@ EXCEPT !.pc = "getNewItem", !.resultId = menu_seq + 1]]
  /\ UNCHANGED <<nonApiVars, orders, order_items>>

\* await db.get(new item), then res.status(201)
MenuPostGetNew(a) ==
  /\ api[a].pc = "getNewItem"
  /\ api' = [api EXCEPT ![a] =
       ApiRespond(@, JsonResponse(201, "true", NoError, MsgItemCreated,
                                  MenuItemById(@.resultId)))]
  /\ UNCHANGED <<nonApiVars, orders, order_items, menu_items, menu_seq>>

\* PUT /api/menu/:id: await db.get(existing item), 404 when missing
MenuPutGetExisting(a) ==
  /\ api[a].pc = "getExistingItem"
  /\ api' = [api EXCEPT ![a] =
       IF MenuItemById(@.id) = <<>>
       THEN ApiRespond(@, notFound(MsgMenuNotFound))
       ELSE [@ EXCEPT !.pc = "updateItem"]]
  /\ UNCHANGED <<nonApiVars, orders, order_items, menu_items, menu_seq>>

\* await db.run('UPDATE menu_items SET name = ?, ... WHERE id = ?')
MenuPutUpdate(a) ==
  /\ api[a].pc = "updateItem"
  /\ IF MenuItemById(api[a].id) # <<>> /\ NameTaken(api[a].body.name, api[a].id)
     THEN /\ api' = [api EXCEPT ![a] = errorMiddleware(@, MsgUnique)]
          /\ UNCHANGED menu_items
     ELSE /\ menu_items' =
               {IF m.id = api[a].id
                THEN [m EXCEPT !.name = api[a].body.name, !.price = api[a].body.price,
                               !.is_available = api[a].body.is_available]
                ELSE m : m \in menu_items}
          /\ api' = [api EXCEPT ![a] = [@ EXCEPT !.pc = "getUpdatedItem"]]
  /\ UNCHANGED <<nonApiVars, orders, order_items, menu_seq>>

\* await db.get(updated item), then res.json
MenuPutGetUpdated(a) ==
  /\ api[a].pc = "getUpdatedItem"
  /\ api' = [api EXCEPT ![a] =
       ApiRespond(@, JsonResponse(200, "true", NoError, MsgItemUpdated, MenuItemById(@.id)))]
  /\ UNCHANGED <<nonApiVars, orders, order_items, menu_items, menu_seq>>

\* DELETE /api/menu/:id: await db.get(existing item), 404 when missing
MenuDeleteGetExisting(a) ==
  /\ api[a].pc = "getItemToDelete"
  /\ api' = [api EXCEPT ![a] =
       IF MenuItemById(@.id) = <<>>
       THEN ApiRespond(@, notFound(MsgMenuNotFound))
       ELSE [@ EXCEPT !.pc = "getOrderItems"]]
  /\ UNCHANGED <<nonApiVars, orders, order_items, menu_items, menu_seq>>

\* await db.all('SELECT id FROM order_items WHERE menu_item_id = ?'): an item
\* that an order refers to is not deleted
MenuDeleteGetOrderItems(a) ==
  /\ api[a].pc = "getOrderItems"
  /\ api' = [api EXCEPT ![a] =
       IF \E i \in 1..Len(order_items) : order_items[i].menu_item_id = @.id
       THEN ApiRespond(@, JsonResponse(400, "false", MsgCannotDelete, NoError, <<>>))
       ELSE [@ EXCEPT !.pc = "deleteItem"]]
  /\ UNCHANGED <<nonApiVars, orders, order_items, menu_items, menu_seq>>

\* await db.run('DELETE FROM menu_items WHERE id = ?'), then res.json
MenuDeleteRun(a) ==
  /\ api[a].pc = "deleteItem"
  /\ menu_items' = {m \in menu_items : m.id # api[a].id}
  /\ api' = [api EXCEPT ![a] =
       ApiRespond(@, JsonResponse(200, "true", NoError, MsgItemDeleted, <<>>))]
  /\ UNCHANGED <<nonApiVars, orders, order_items, menu_seq>>

NextCrud ==
  \E a \in ApiReqs :
    \/ ApiReceive(a)
    \/ OrdersGetById(a)
    \/ OrdersPostInsert(a)
    \/ OrdersPostGetItem(a)
    \/ OrdersPostInsertItem(a)
    \/ OrdersPostUpdateTotal(a)
    \/ OrdersPostGetComplete(a)
    \/ OrdersPutStatusGetExisting(a)
    \/ OrdersPutStatusUpdate(a)
    \/ OrdersPutStatusGetUpdated(a)
    \/ MenuGetById(a)
    \/ MenuPostInsert(a)
    \/ MenuPostGetNew(a)
    \/ MenuPutGetExisting(a)
    \/ MenuPutUpdate(a)
    \/ MenuPutGetUpdated(a)
    \/ MenuDeleteGetExisting(a)
    \/ MenuDeleteGetOrderItems(a)
    \/ MenuDeleteRun(a)

CrudSpec == Init /\ [][NextCrud]_vars

-----------------------------------------------------------------------------
(* The web client (public/script.js): what it shows of a processing result *)

\* the aggregate confidence of a processing result: the mean confidence of
\* the marks times 100, a number from 0 to 100, here in steps of one half
AggregateConfidences == {Frac(n, 2) : n \in 0..200}

\* Math.round of the fraction num / den: the nearest integer, halves upwards
MathRound(num, den) == (2 * num + den) \div (2 * den)

\* showResults: const confidencePercent = Math.round(data.confidence * 100)
confidencePercentOf(confidence) == MathRound(confidence.num * 100, confidence.den)

clientFrame ==
  <<call, pythonProcessorReady, initPc, files, req, orders, order_items, omr_forms,
    menu_items, api, menu_seq, layout, scorer, ui, boot>>

\* processForm: POST /api/omr/process answered success, then showResults(result.data)
ProcessFormShowResults ==
  /\ \E confidence \in AggregateConfidences :
       client' = [view |-> "results", confidence |-> confidence,
                  confidencePercent |-> confidencePercentOf(confidence)]
  /\ UNCHANGED clientFrame

\* processForm: the request failed and the catch block shows a toast
ProcessFormFailed ==
  /\ client' = [IdleClient EXCEPT !.view = "error"]
  /\ UNCHANGED clientFrame

\* GET /api/omr/history, as the server answers it: data: [], count: 0
historyRows == <<>>

\* loadHistory: a percentage is computed per row of the answer, none for the
\* empty answer
LoadHistory ==
  /\ client' = IF Len(historyRows) > 0
               THEN [view |-> "history", confidence |-> historyRows[1],
                     confidencePercent |-> confidencePercentOf(historyRows[1])]
               ELSE [IdleClient EXCEPT !.view = "history"]
  /\ UNCHANGED clientFrame

NextClient == ProcessFormShowResults \/ ProcessFormFailed \/ LoadHistory

ClientSpec == Init /\ [][NextClient]_vars

-----------------------------------------------------------------------------
(* The web client (public/script.js): file selection, the requests it sends *)
(* and its settings                                                         *)

uiFrame ==
  <<call, pythonProcessorReady, initPc, files, req, orders, order_items, omr_forms,
    menu_items, api, menu_seq, client, layout, scorer, boot>>

\* showLoading(show): the overlay is shown or hidden
showLoading(u, show) == [u EXCEPT !.loading = show]

\* processForm up to its fetch: a toast when no file is selected, otherwise
\* showLoading(true) and POST ${API_BASE_URL}/api/omr/process with the file
processForm(u) ==
  IF u.selectedFile = NoFile THEN u
  ELSE [showLoading(u, TRUE) EXCEPT
          !.inflight = Append(@, ClientRequest("processForm", u.selectedFile, NoFile,
                                               u.API_BASE_URL))]

\* clearForm: selectedFile = null; currentProcessingData = null
clearForm(u) == [u EXCEPT !.selectedFile = NoFile, !.currentProcessingData = NoFile]

\* loadOrders: fetch(`${API_BASE_URL}/api/orders`)
loadOrders(u) == [u EXCEPT !.lastFetch = Fetch("loadOrders", u.API_BASE_URL)]

\* loadHistory: fetch(`${API_BASE_URL}/api/omr/history`)
loadHistory(u) == [u EXCEPT !.lastFetch = Fetch("loadHistory", u.API_BASE_URL)]

RemoveAt(seq, i) == [j \in 1..(Len(seq) - 1) |-> IF j < i THEN seq[j] ELSE seq[j + 1]]

\* the user picks or drops an image file: processSelectedFile stores it and,
\* with auto-process checked, calls processForm
ProcessSelectedFile ==
  /\ ui.autoProcess => Len(ui.inflight) < MaxInFlight
  /\ \E file \in Files :
       ui' = LET chosen == [ui EXCEPT !.selectedFile = file]
             IN  IF ui.autoProcess THEN processForm(chosen) ELSE chosen
  /\ UNCHANGED uiFrame

\* the Process button
ProcessForm ==
  /\ Len(ui.inflight) < MaxInFlight
  /\ ui.selectedFile # NoFile
  /\ ui' = processForm(ui)
  /\ UNCHANGED uiFrame

\* processForm after its awaits: on success currentProcessingData =
\* result.data and the results are shown; on any failure a toast; finally
\* showLoading(false)
ProcessFormResponse ==
  /\ \E i \in 1..Len(ui.inflight), ok \in BOOLEAN :
       /\ ui.inflight[i].fn = "processForm"
       /\ ui' = LET left == [ui EXCEPT !.inflight = RemoveAt(@, i)]
                 IN  showLoading(IF ok
                                 THEN [left EXCEPT !.currentProcessingData = ui.inflight[i].file]
                                 ELSE left,
                                 FALSE)
  /\ UNCHANGED uiFrame

\* createOrder: nothing without processing data; otherwise
\* createOrderFromData up to its fetch: showLoading(true) and POST
\* ${API_BASE_URL}/api/omr/process-to-order with selectedFile
CreateOrder ==
  /\ Len(ui.inflight) < MaxInFlight
  /\ ui.currentProcessingData # NoFile
  /\ ui' = [showLoading(ui, TRUE) EXCEPT
              !.inflight = Append(@, ClientRequest("createOrderFromData", ui.selectedFile,
                                                   ui.currentProcessingData,
                                                   ui.API_BASE_URL))]
  /\ UNCHANGED uiFrame

\* createOrderFromData after its awaits: on success closeModal, clearForm,
\* switchTab('orders') and loadOrders; on failure a toast; finally
\* showLoading(false)
CreateOrderResponse ==
  /\ \E i \in 1..Len(ui.inflight), ok \in BOOLEAN :
       /\ ui.inflight[i].fn = "createOrderFromData"
       /\ ui' = LET left == [ui EXCEPT !.inflight = RemoveAt(@, i)]
                 IN  showLoading(IF ok THEN loadOrders(clearForm(left)) ELSE left, FALSE)
  /\ UNCHANGED uiFrame

\* the Clear button
ClearForm ==
  /\ ui' = clearForm(ui)
  /\ UNCHANGED uiFrame

\* the Orders tab and the History tab (switchTab), the Refresh button
LoadOrders ==
  /\ ui' = loadOrders(ui)
  /\ UNCHANGED uiFrame

LoadHistoryFetch ==
  /\ ui' = loadHistory(ui)
  /\ UNCHANGED uiFrame

\* saveSettings, on a change of the URL field or of a checkbox: the settings
\* go to localStorage and the URL to window.API_BASE_URL
SaveSettings ==
  /\ \E apiUrl \in ApiUrls, autoProcess \in BOOLEAN :
       ui' = [ui EXCEPT !.savedApiUrl = apiUrl, !.autoProcess = autoProcess,
                        !.windowApiBaseUrl = apiUrl]
  /\ UNCHANGED uiFrame

\* the page is loaded again: the script starts afresh, initializeApp puts the
\* saved URL into the settings field and loadSettings restores the checkboxes
Reload ==
  /\ ui' = LoadedUi(ui.savedApiUrl, ui.autoProcess)
  /\ UNCHANGED uiFrame

NextUi ==
  \/ ProcessSelectedFile
  \/ ProcessForm
  \/ ProcessFormResponse
  \/ CreateOrder
  \/ CreateOrderResponse
  \/ ClearForm
  \/ LoadOrders
  \/ LoadHistoryFetch
  \/ SaveSettings
  \/ Reload

UiSpec == Init /\ [][NextUi]_vars

\* C27 as stated: whenever currentProcessingData is non-null it is the result
\* of the currently selected file, and createOrder uploads the file whose
\* results it was handed.
C27_DataIsOfSelectedFile ==
  /\ ui.currentProcessingData # NoFile => ui.currentProcessingData = ui.selectedFile
  /\ \A i \in 1..Len(ui.inflight) :
       ui.inflight[i].fn = "createOrderFromData" => ui.inflight[i].file = ui.inflight[i].data

\* C28 as stated: the loading overlay is active exactly while at least one
\* processForm or createOrderFromData request is in flight.
C28_LoadingIffInFlight == ui.loading <=> Len(ui.inflight) > 0

\* C30 as stated: once an API URL has been saved, every request the client
\* sends (processForm, createOrderFromData, loadOrders, loadHistory, also
\* after a reload) goes to the saved URL.
C30_RequestsGoToSavedUrl ==
  [][ui'.savedApiUrl # NoUrl =>
       /\ Len(ui'.inflight) > Len(ui.inflight)
            => ui'.inflight[Len(ui'.inflight)].url = ui'.savedApiUrl
       /\ ui'.lastFetch # ui.lastFetch => ui'.lastFetch.url = ui'.savedApiUrl]_vars

-----------------------------------------------------------------------------
(* The layout model of the engine: the expected region of every mark of the *)
(* reference form, as fractions of the image size                           *)

\* self.menu_items: the ordered vocabulary of the form
MenuVocabulary == <<"isda", "egg", "water", "sinigang", "Chicken", "pusit", "gatas", "beef">>

\* int(size * percent / 100): the pixel coordinate of a fractional offset
PixelOf(size, percent) == (size * percent) \div 100

\* the region of one mark: the quantity column at 10% of the width, the
\* selection column 40% of the width further right, rows from 20% of the
\* height in steps of 8%, every region 5% of the image wide and high
Region(type, i, width, height) ==
  [type |-> type, item |-> MenuVocabulary[i],
   x |-> PixelOf(width, IF type = "quantity" THEN 10 ELSE 10 + 40),
   y |-> PixelOf(height, 20 + (i - 1) * 8),
   width |-> PixelOf(width, 5),
   height |-> PixelOf(height, 5)]

\* regionsFor(width, height): per item of the vocabulary its quantity region,
\* then its selection region
regionsFor(width, height) ==
  [n \in 1..(2 * Len(MenuVocabulary)) |->
     Region(IF n % 2 = 1 THEN "quantity" ELSE "selection", (n + 1) \div 2, width, height)]

layoutFrame ==
  <<call, pythonProcessorReady, initPc, files, req, orders, order_items, omr_forms,
    menu_items, api, menu_seq, client, scorer, ui, boot>>

\* the engine computes the regions of an image of some size
RegionsForCall ==
  /\ layout.pc = "idle"
  /\ \E width \in 1..MaxDim, height \in 1..MaxDim :
       layout' = [pc |-> "called", width |-> width, height |-> height,
                  first |-> regionsFor(width, height), second |-> <<>>]
  /\ UNCHANGED layoutFrame

\* a second run on an image of the same size
RegionsForAgain ==
  /\ layout.pc = "called"
  /\ layout' = [layout EXCEPT !.pc = "again",
                              !.second = regionsFor(layout.width, layout.height)]
  /\ UNCHANGED layoutFrame

NextLayout == RegionsForCall \/ RegionsForAgain

LayoutSpec == Init /\ [][NextLayout]_vars

-----------------------------------------------------------------------------
(* The mark scorer of the engine: the decision and the confidence of one    *)
(* region of the binary image                                               *)

\* markThreshold, in tenths: the tunable constant of the decision rule
MarkThresholds == {3, 4, 5}

Min(a, b) == IF a < b THEN a ELSE b

Max(a, b) == IF a > b THEN a ELSE b

\* the number of pixels of [from, from + size) that lie inside [0, limit)
clipped(from, size, limit) == Max(0, Min(from + size, limit) - Max(from, 0))

\* totalPixels of a square region after clipping to the image
totalPixels(x, y, size) == clipped(x, size, ImageSide) * clipped(y, size, ImageSide)

\* variant: the confidence is the distance of fillRatio from the threshold
confidenceDistance(foreground, total, threshold) ==
  IF total = 0 THEN Frac(0, 1)
  ELSE IF 10 * foreground >= threshold * total
       THEN Frac(10 * foreground - threshold * total, 10 * total)
       ELSE Frac(threshold * total - 10 * foreground, 10 * total)

\* the confidence: how far fillRatio lies above the threshold, as a share of
\* the range above it, clamped to [0, 1]; 0 for a region of no pixels
confidenceOf(foreground, total, threshold) ==
  IF total = 0 THEN Frac(0, 1)
  ELSE Frac(Min(Max(10 * foreground - threshold * total, 0), total * (10 - threshold)),
            total * (10 - threshold))

\* isMarked = fillRatio >= markThreshold; never for a region of no pixels
isMarkedOf(foreground, total, threshold) ==
  total > 0 /\ 10 * foreground >= threshold * total

scorerFrame ==
  <<call, pythonProcessorReady, initPc, files, req, orders, order_items, omr_forms,
    menu_items, api, menu_seq, client, layout, ui, boot>>

score(x, y, size, threshold, foreground, inked) ==
  LET total == totalPixels(x, y, size)
  IN  [pc |-> "scored", x |-> x, y |-> y, size |-> size, threshold |-> threshold,
       total |-> total, foreground |-> foreground,
       isMarked |-> isMarkedOf(foreground, total, threshold),
       confidence |-> confidenceOf(foreground, total, threshold), inked |-> inked]

\* the scorer is run on a region of a binary image
ScoreRegion ==
  /\ \E x \in (0 - MaxSide)..ImageSide, y \in (0 - MaxSide)..ImageSide, size \in 1..MaxSide,
        threshold \in MarkThresholds :
       \E foreground \in 0..totalPixels(x, y, size) :
         scorer' = score(x, y, size, threshold, foreground, FALSE)
  /\ UNCHANGED scorerFrame

\* the scorer is run again on the same region after one more of its pixels
\* became foreground
ScoreWithMoreInk ==
  /\ scorer.pc = "scored"
  /\ scorer.foreground < scorer.total
  /\ scorer' = score(scorer.x, scorer.y, scorer.size, scorer.threshold,
                     scorer.foreground + 1, TRUE)
  /\ UNCHANGED scorerFrame

NextScorer == ScoreRegion \/ ScoreWithMoreInk

ScorerSpec == Init /\ [][NextScorer]_vars

\* a / b <= c / d for fractions with positive denominators
FracLeq(a, b) == a.num * b.den <= b.num * a.den

\* C21: for a fixed region, more foreground pixels inside it never lower the
\* confidence of the mark and never turn isMarked from true to false; a region
\* whose clipped area is zero yields isMarked = false and confidence = 0.
C21_MoreInkNeverLowers ==
  [][/\ (/\ scorer.pc = "scored" /\ scorer'.pc = "scored"
          /\ scorer'.x = scorer.x /\ scorer'.y = scorer.y /\ scorer'.size = scorer.size
          /\ scorer'.threshold = scorer.threshold
          /\ scorer'.foreground > scorer.foreground)
         => /\ FracLeq(scorer.confidence, scorer'.confidence)
            /\ scorer.isMarked => scorer'.isMarked
     /\ (scorer'.pc = "scored" /\ scorer'.total = 0)
         => ~scorer'.isMarked /\ scorer'.confidence.num = 0]_vars

\* a partly clipped region has been scored again with more ink: it is marked
\* with a confidence above 0
C21_Witness ==
  /\ scorer.pc = "scored" /\ scorer.inked
  /\ scorer.total > 0 /\ scorer.total < scorer.size * scorer.size
  /\ scorer.isMarked /\ scorer.confidence.num > 0

Next ==
  \/ CheckPythonEnvironment
  \/ InstallPythonDependencies
  \/ \E r \in Reqs :
       \/ Upload(r)
       \/ HandlerStart(r)
       \/ ProcessEngine(r)
       \/ ProcessToOrderEngine(r)
       \/ InsertOrder(r)
       \/ GetMenuItem(r)
       \/ InsertItem(r)
       \/ UpdateTotal(r)
       \/ InsertForm(r)
       \/ GetOrder(r)
       \/ Catch(r)

Spec == Init /\ [][Next]_vars

-----------------------------------------------------------------------------
(* Start-up of the server (server.js, config/database.js): the port is open *)
(* while db.connect() opens the database and creates its tables             *)

MsgNoDatabase == "SQLITE_ERROR: no such table"

StartupInit == ServerInit /\ call = IdleCall /\ \E fresh \in BOOLEAN : boot = Listening(fresh)

startupFrame ==
  <<call, pythonProcessorReady, initPc, files, req, orders, order_items, omr_forms,
    menu_items, api, menu_seq, client, layout, scorer, ui>>

\* new sqlite3.Database(path, callback): the callback gets an error, which
\* connect rejects with and the callback of app.listen only logs, or the
\* database is open and initializeTables starts
DatabaseOpened ==
  /\ boot.pc = "opening"
  /\ \E ok \in BOOLEAN : boot' = [boot EXCEPT !.pc = IF ok THEN "initializeTables" ELSE "failed"]
  /\ UNCHANGED startupFrame

\* initializeTables: the CREATE TABLE IF NOT EXISTS statements, then
\* insertSampleData; connect resolves
InitializeTables ==
  /\ boot.pc = "initializeTables"
  /\ boot' = [boot EXCEPT !.pc = "connected", !.fresh = FALSE]
  /\ UNCHANGED startupFrame

\* a statement handed to the sqlite3 Database object waits while the file is
\* being opened and runs as soon as it is open
DatabaseRuns == boot.pc \in {"initializeTables", "connected", "failed"}

\* the statement finds the tables of the application
DatabaseHasTables ==
  boot.pc = "connected" \/ (boot.pc = "initializeTables" /\ ~boot.fresh)

\* a database call of a handler rejects because the database could not be
\* opened or has no tables yet: asyncHandler passes the error on
QueryRejected(a) ==
  /\ DatabaseRuns /\ ~DatabaseHasTables
  /\ api[a].pc \notin {"idle", "done"}
  /\ api' = [api EXCEPT ![a] = errorMiddleware(@, MsgNoDatabase)]
  /\ UNCHANGED <<nonApiVars, orders, order_items, menu_items, menu_seq>>

\* a database call of a handler is answered
QueryAnswered(a) ==
  /\ DatabaseRuns /\ DatabaseHasTables
  /\ \/ OrdersGetById(a)
     \/ OrdersPostInsert(a)
     \/ OrdersPostGetItem(a)
     \/ OrdersPostInsertItem(a)
     \/ OrdersPostUpdateTotal(a)
     \/ OrdersPostGetComplete(a)
     \/ OrdersPutStatusGetExisting(a)
     \/ OrdersPutStatusUpdate(a)
     \/ OrdersPutStatusGetUpdated(a)
     \/ MenuGetById(a)
     \/ MenuPostInsert(a)
     \/ MenuPostGetNew(a)
     \/ MenuPutGetExisting(a)
     \/ MenuPutUpdate(a)
     \/ MenuPutGetUpdated(a)
     \/ MenuDeleteGetExisting(a)
     \/ MenuDeleteGetOrderItems(a)
     \/ MenuDeleteRun(a)

NextStartup ==
  \/ DatabaseOpened
  \/ InitializeTables
  \/ \E a \in {1} :
       \/ ApiReceive(a)
       \/ QueryAnswered(a)
       \/ QueryRejected(a)

StartupSpec == StartupInit /\ [][NextStartup]_vars

-----------------------------------------------------------------------------
(* The whole application: one OMR request and one menu or order request,    *)
(* served over the same database                                            *)

NextApp ==
  \/ CheckPythonEnvironment
  \/ InstallPythonDependencies
  \/ \E r \in {1} :
       \/ Upload(r)
       \/ HandlerStart(r)
       \/ ProcessEngine(r)
       \/ ProcessToOrderEngine(r)
       \/ InsertOrder(r)
       \/ GetMenuItem(r)
       \/ InsertItem(r)
       \/ UpdateTotal(r)
       \/ InsertForm(r)
       \/ GetOrder(r)
       \/ Catch(r)
  \/ \E a \in {1} :
       \/ ApiReceive(a)
       \/ OrdersGetById(a)
       \/ OrdersPostInsert(a)
       \/ OrdersPostGetItem(a)
       \/ OrdersPostInsertItem(a)
       \/ OrdersPostUpdateTotal(a)
       \/ OrdersPostGetComplete(a)
       \/ OrdersPutStatusGetExisting(a)
       \/ OrdersPutStatusUpdate(a)
       \/ OrdersPutStatusGetUpdated(a)
       \/ MenuGetById(a)
       \/ MenuPostInsert(a)
       \/ MenuPostGetNew(a)
       \/ MenuPutGetExisting(a)
       \/ MenuPutUpdate(a)
       \/ MenuPutGetUpdated(a)
       \/ MenuDeleteGetExisting(a)
       \/ MenuDeleteGetOrderItems(a)
       \/ MenuDeleteRun(a)

AppSpec == Init /\ [][NextApp]_vars

-----------------------------------------------------------------------------
(* Properties of the wrapper, checked under ExtractSpec *)

SetMax(S) == CHOOSE m \in S : \A n \in S : n <= m

\* extractOrderFromOMR has returned success
Extracted == call.pc = "extracted" /\ call.ex.value.success

ExMarks == call.ex.value.omrData.marks

ExLines == call.ex.value.orderItems

HasLine(X) == \E k \in 1..Len(ExLines) : ExLines[k].item_name = X

\* positions of the marks of item X and type t
MarksOf(X, t) == {i \in 1..Len(ExMarks) : ExMarks[i].item = X /\ ExMarks[i].type = t}

\* C1 as stated: an order line for item X exists iff the list contains a mark
\* with item = X, type = selection and isMarked = true, also when an item has
\* several marks of the same type.
C1_AnyMarkedSelection ==
  Extracted =>
    \A X \in Vocab :
      HasLine(X) <=> \E i \in MarksOf(X, "selection") : ExMarks[i].isMarked

\* C1 amended: an order line for item X exists iff X has a selection mark and
\* the last selection mark of X in the list is marked (for an item with one
\* selection mark: iff that mark is marked); other items are dropped.
C1_LastSelectionDecides ==
  Extracted =>
    \A X \in Vocab :
      HasLine(X) <=> /\ MarksOf(X, "selection") # {}
                     /\ ExMarks[SetMax(MarksOf(X, "selection"))].isMarked

C1_Witness ==
  /\ Extracted
  /\ \E X \in Vocab : HasLine(X) /\ Cardinality(MarksOf(X, "selection")) > 1
  /\ \E Y \in Vocab : ~HasLine(Y) /\ MarksOf(Y, "selection") # {}

\* processImage succeeded and the parsed engine result has success = true
UpstreamSucceeded ==
  /\ call.pc = "extracted"
  /\ call.pi.value.success
  /\ call.pi.value.data.kind = "object"
  /\ call.pi.value.data.success = "true"

\* C2 as stated: whenever processImage reports success and the parsed result
\* has success = true, extraction returns success = true, whatever the rest of
\* the parsed result.
C2_FailsOnlyOnUpstreamFailure == UpstreamSucceeded => call.ex.value.success

\* C2 amended: whenever processImage reports success, the parsed result has
\* success = true and its marks field is a list, extraction returns
\* success = true; it fails when marks is missing or not a list.
C2_FailsOnlyOnUpstreamOrMarks ==
  UpstreamSucceeded =>
    (call.ex.value.success <=> call.pi.value.data.marksKind = "list")

C2_Witness ==
  /\ UpstreamSucceeded
  /\ call.pi.value.data.marksKind = "list"
  /\ call.pi.value.data.marks = <<>>
  /\ call.ex.value.success

\* C3: every failure of extractOrderFromOMR has success = false,
\* orderItems = [] and omrData = null.
C3_FailureIsEmpty ==
  (call.pc = "extracted" /\ ~call.ex.value.success) =>
    /\ call.ex.value.orderItems = <<>>
    /\ call.ex.value.omrData = NullJson

\* a failure raised while grouping the marks of a successful engine result
C3_Witness ==
  /\ UpstreamSucceeded
  /\ call.pi.value.data.marksKind = "notlist"
  /\ ~call.ex.value.success

\* C4: processImage and extractOrderFromOMR always resolve to a result object;
\* for a nonexistent image path the result has success = false and a non-empty
\* error, and the Python process is not spawned.
C4_NeverRejects ==
  /\ call.pc \in {"processed", "extracted"} =>
       /\ ~call.pi.rejected
       /\ (~call.exists => /\ ~call.pi.value.success
                           /\ call.pi.value.error # NoError
                           /\ ~call.pi.spawned)
  /\ call.pc = "extracted" =>
       /\ ~call.ex.rejected
       /\ (~call.exists => /\ ~call.ex.value.success
                           /\ call.ex.value.error # NoError
                           /\ ~call.ex.spawned)

C4_Witness == call.pc = "extracted" /\ ~call.exists /\ ~call.ex.value.success

\* C6: the confidence of an order line is the minimum of the item's selection
\* and quantity confidences when a quantity mark is present, the selection
\* confidence otherwise, and never exceeds the selection confidence (with
\* several marks of one type, the last one is the item's mark).
C6_ConfidenceIsMinimum ==
  Extracted =>
    \A k \in 1..Len(ExLines) :
      LET X == ExLines[k].item_name
          sel == ExMarks[SetMax(MarksOf(X, "selection"))].confidence
      IN  /\ ExLines[k].confidence <= sel
          /\ IF MarksOf(X, "quantity") # {}
             THEN LET qty == ExMarks[SetMax(MarksOf(X, "quantity"))].confidence
                  IN  ExLines[k].confidence = IF qty < sel THEN qty ELSE sel
             ELSE ExLines[k].confidence = sel

\* a line whose quantity mark is weaker than its selection mark, and a line
\* without quantity mark
C6_Witness ==
  /\ Extracted
  /\ \E k \in 1..Len(ExLines) :
       LET X == ExLines[k].item_name
       IN  /\ MarksOf(X, "quantity") # {}
           /\ ExLines[k].confidence = ExMarks[SetMax(MarksOf(X, "quantity"))].confidence
           /\ ExMarks[SetMax(MarksOf(X, "quantity"))].confidence
                < ExMarks[SetMax(MarksOf(X, "selection"))].confidence
  /\ \E k \in 1..Len(ExLines) : MarksOf(ExLines[k].item_name, "quantity") = {}

\* C7: every order line has quantity 1, whether the quantity mark is marked,
\* unmarked or absent.
C7_QuantityIsOne ==
  Extracted => \A k \in 1..Len(ExLines) : ExLines[k].quantity = 1

\* a line whose quantity mark is marked
C7_Witness ==
  /\ Extracted
  /\ \E k \in 1..Len(ExLines) :
       \E i \in MarksOf(ExLines[k].item_name, "quantity") :
         i = SetMax(MarksOf(ExLines[k].item_name, "quantity")) /\ ExMarks[i].isMarked

\* C22: processImage returns success = true exactly when the image file is
\* accessible, the Python process closes with exit code 0 and its stdout
\* parses as JSON, and success = false with data = null otherwise; the promise
\* of runPythonCommand keeps its first settlement when 'error' is followed by
\* 'close'.
C22_SuccessIffCleanRun ==
  call.pc \in {"processed", "extracted"} =>
    /\ call.pi.value.success <=>
         (call.exists /\ call.proc.event = "close" /\ call.proc.code = 0
            /\ call.proc.stdout.valid)
    /\ ~call.pi.value.success => call.pi.value.data = NullJson
    /\ (call.exists /\ call.proc.event = "error-close") =>
         call.pi.value.error = MsgSpawn

\* a run whose 'error' event was followed by 'close' has been reported as the
\* spawn failure
C22_Witness ==
  /\ call.pc = "processed" /\ call.exists
  /\ call.proc.event = "error-close"
  /\ ~call.pi.value.success /\ call.pi.value.error = MsgSpawn

-----------------------------------------------------------------------------
(* Properties of the OMR routes, checked under Spec *)

\* C5 as stated: POST /process answers success = true, with marks, confidence
\* and marked_items read from the engine result, only when that result has
\* success = true.
C5_SuccessOnlyOnEngineSuccess ==
  \A r \in Reqs :
    (req[r].pc = "done" /\ req[r].route = "process" /\ req[r].response.success) =>
      /\ req[r].response.data.kind = "object"
      /\ req[r].response.data.success = "true"

\* C8 as stated: whenever a request with an uploaded file completes with a
\* non-success response, removal of its file was attempted before the response.
C8_CleanupBeforeFailure ==
  \A r \in Reqs :
    (req[r].pc = "done" /\ req[r].hasFile /\ ~req[r].response.success) =>
      req[r].unlinkTried

\* C9: the engine wrapper leaves the image files alone; a file disappears only
\* in the catch block of the route handler of its own request.
C9_EngineOnlyReads ==
  [][/\ \A r \in Reqs :
          (req[r].pc = "engine" /\ req'[r].pc # "engine") => files' = files
     /\ \A p \in files :
          p \notin files' => (req[p].pc = "catch" /\ req'[p].pc = "done")]_vars

\* the wrapper has run, successfully for one request and with a failure for
\* another, and both images are still there
C9_Witness ==
  \E r1, r2 \in Reqs :
    /\ req[r1].pc = "done" /\ req[r1].response.status = 200 /\ r1 \in files
    /\ req[r2].pc = "catch" /\ req[r2].error = MsgPythonFailed /\ r2 \in files

\* C10 as stated: with the Python processor unavailable, an OMR request with a
\* file is not failed for that reason; a processing result is produced instead.
C10_FallbackWhenUnavailable ==
  \A r \in Reqs :
    req[r].hasFile =>
      /\ req[r].pc = "catch" => req[r].error # MsgNotAvailable
      /\ req[r].pc = "done" => req[r].response.message # MsgNotAvailable

\* the flag changes only from false to true, and only in the step in which
\* the dependency installation, begun after the version check, succeeds
FlagOnlyRises ==
  pythonProcessorReady' # pythonProcessorReady =>
    /\ ~pythonProcessorReady /\ pythonProcessorReady'
    /\ initPc = "installing" /\ initPc' = "ready"

\* request r is answered 500 'Python OMR processor not available' and the
\* engine is not started for it
RefusedUnavailable(r) ==
  /\ (req[r].pc = "handler" /\ req'[r] # req[r])
       => /\ req'[r].pc = "catch"
          /\ req'[r].error = "Python OMR processor not available"
          /\ req'[r].proc = NoProc
  /\ (req[r].pc = "catch" /\ req'[r] # req[r])
       => /\ req'[r].pc = "done"
          /\ req'[r].response.status = 500
          /\ req'[r].response.message = req[r].error

BlankForm(proc) ==
  /\ proc.event = "close" /\ proc.code = 0 /\ proc.stdout.valid
  /\ proc.stdout.value.kind = "object"
  /\ proc.stdout.value.success = "true"
  /\ proc.stdout.value.marksKind = "list"
  /\ \A i \in 1..Len(proc.stdout.value.marks) :
       proc.stdout.value.marks[i].type = "selection" => ~proc.stdout.value.marks[i].isMarked

\* C11: for an engine result in which no selection mark is marked,
\* extractOrderFromOMR returns success = true with orderItems = [], and
\* POST /process-to-order answers 400 without inserting any row into orders,
\* order_items or omr_forms.
C11_BlankFormRejected ==
  [][\A r \in Reqs :
       (/\ req[r].pc = "engine" /\ req'[r].pc # "engine"
        /\ req[r].route = "process-to-order"
        /\ r \in files
        /\ BlankForm(req[r].proc)) =>
         /\ extractOrderFromOMR(TRUE, req[r].proc).value.success
         /\ extractOrderFromOMR(TRUE, req[r].proc).value.orderItems = <<>>
         /\ req'[r].pc = "done"
         /\ req'[r].response.status = 400
         /\ req'[r].response.message = MsgNoSelections
         /\ UNCHANGED <<orders, order_items, omr_forms>>]_vars

\* a form without marked selection was answered 400 while the orders table
\* holds an order of another request
C11_Witness ==
  \E r \in Reqs :
    /\ req[r].pc = "done" /\ req[r].route = "process-to-order"
    /\ req[r].response.status = 400
    /\ req[r].response.message = MsgNoSelections
    /\ orders # <<>>

-----------------------------------------------------------------------------
(* Properties of the menu and order routes, checked under CrudSpec *)

\* request a takes a step
Steps(a) == api'[a] # api[a]

\* request a arrives with this step
Arrives(a) == api[a].pc = "idle" /\ api'[a].pc # "idle"

\* C13 as stated: the data array of GET /api/orders contains every created
\* order and count equals their number.
C13_OrdersListed ==
  [][\A a \in ApiReqs :
       (Arrives(a) /\ api'[a].op = "GET /api/orders") =>
         /\ api'[a].pc = "done"
         /\ api'[a].response.count = Len(orders)
         /\ \A i \in 1..Len(orders) :
              \E j \in 1..Len(api'[a].response.data) :
                api'[a].response.data[j].id = orders[i].id]_vars

\* the order_items rows of order id, in the order of their insertion
ItemsOfOrder(id) == SelectSeq(order_items, LAMBDA row : row.order_id = id)

RECURSIVE SumOfLines(_)
SumOfLines(rows) ==
  IF rows = <<>> THEN 0
  ELSE Head(rows).unit_price * Head(rows).quantity + SumOfLines(Tail(rows))

\* C29 as stated: a handler issues a database query (at its start or after an
\* earlier one was answered) only when db.connect() has completed.
C29_QueriesAfterConnect ==
  [][\A a \in ApiReqs :
       (Steps(a) /\ api'[a].pc \notin {"idle", "done"}) => boot.pc = "connected"]_vars

\* C24 as stated: when POST /api/orders meets a requested item that is missing
\* or unavailable, the request fails and no row of that request remains in
\* orders or order_items.
C24_FailedOrderLeavesNoRows ==
  [][\A a \in ApiReqs :
       (/\ api[a].pc = "getItem" /\ Steps(a)
        /\ \A m \in menu_items :
             m.id = api[a].body.items[api[a].k].menu_item_id => ~m.is_available)
         => /\ api'[a].pc = "done"
            /\ api'[a].response.status >= 400
            /\ \A i \in 1..Len(orders') : orders'[i].id # api[a].resultId
            /\ \A i \in 1..Len(order_items') :
                 order_items'[i].order_id # api[a].resultId]_vars

\* C25 as stated: in every reachable state, under any interleaving of
\* DELETE /api/menu/:id with the order-creating requests, every order_items
\* row references a menu item that still exists.
C25_OrderItemsReferenceMenu ==
  \A i \in 1..Len(order_items) :
    \E m \in menu_items : m.id = order_items[i].menu_item_id

\* C26 as stated: an order that POST /api/omr/process-to-order answers with
\* 201 has exactly one order item for each extracted order line, so at least
\* one, and its total_amount is the sum of price times quantity of those
\* lines.
C26_OneItemPerExtractedLine ==
  [][\A r \in Reqs :
       (req[r].pc = "getOrder" /\ req'[r].pc = "done" /\ req'[r].response.status = 201)
         => LET lines == req[r].ex.value.orderItems
                rows == ItemsOfOrder(req[r].orderId)
            IN  /\ Len(lines) >= 1
                /\ Len(rows) = Len(lines)
                /\ \A k \in 1..Len(rows) : rows[k].quantity = lines[k].quantity
                /\ orders[req[r].orderId].total_amount = SumOfLines(rows)]_vars

\* C14: POST /api/orders with a valid body whose items are all found
\* available when the handler looks them up answers 201 with success = true
\* and a defined order_number, has stored one order_item per requested item,
\* each at the menu price read, and has set total_amount to the sum of price
\* times quantity.
C14_OrderCreated ==
  [][\A a \in ApiReqs :
       /\ (Arrives(a) /\ api'[a].op = "POST /api/orders"
             /\ Len(api'[a].body.items) >= 1
             /\ \A i \in 1..Len(api'[a].body.items) :
                  api'[a].body.items[i].menu_item_id > 0 /\ api'[a].body.items[i].quantity > 0)
            => api'[a].pc = "insertOrder"
       /\ (api[a].pc = "insertOrder" /\ Steps(a)) => api'[a].pc = "getItem"
       /\ (api[a].pc = "getItem" /\ Steps(a)) =>
            \A m \in menu_items :
              (m.id = api[a].body.items[api[a].k].menu_item_id /\ m.is_available) =>
                api'[a].pc = "insertItem" /\ api'[a].unitPrice = m.price
       /\ (api[a].pc = "insertItem" /\ Steps(a)) =>
            /\ api'[a].pc \in {"getItem", "updateTotal"}
            /\ api'[a].pc = "updateTotal" <=> api[a].k = Len(api[a].body.items)
            /\ Len(ItemsOfOrder(api[a].resultId)') = api[a].k
            /\ order_items'[Len(order_items')].unit_price = api[a].unitPrice
       /\ (api[a].pc = "updateTotal" /\ Steps(a)) => api'[a].pc = "getComplete"
       /\ (api[a].pc = "getComplete" /\ Steps(a)) =>
            LET lines == ItemsOfOrder(api[a].resultId)
                items == api[a].body.items
            IN  /\ api'[a].pc = "done"
                /\ api'[a].response.status = 201
                /\ api'[a].response.success = "true"
                /\ Len(api'[a].response.data) = 1
                /\ api'[a].response.data[1].order_number # ""
                /\ Len(lines) = Len(items)
                /\ \A i \in 1..Len(items) :
                     /\ lines[i].menu_item_id = items[i].menu_item_id
                     /\ lines[i].quantity = items[i].quantity
                /\ api'[a].response.data[1].total_amount = SumOfLines(lines)]_vars

\* the order of two items of the sample menu is answered 201 with the total
\* 150 * 1 + 25 * 1
C14_Witness ==
  \E a \in ApiReqs :
    /\ api[a].pc = "done" /\ api[a].op = "POST /api/orders"
    /\ api[a].response.status = 201
    /\ Len(api[a].body.items) = 2
    /\ api[a].response.data[1].total_amount = 175

\* the routes that address one row by req.params.id
IdRoutes ==
  {"GET /api/menu/:id", "PUT /api/menu/:id", "DELETE /api/menu/:id",
   "GET /api/orders/:id", "PUT /api/orders/:id/status"}

\* the awaits at which these routes look the row up
LookupPcs ==
  {"getMenuItem", "getExistingItem", "getItemToDelete", "getOrder", "getExistingOrder"}

\* the table of the route has no row with this id
Missing(op, id) ==
  IF op \in {"GET /api/orders/:id", "PUT /api/orders/:id/status"}
  THEN \A i \in 1..Len(orders) : orders[i].id # id
  ELSE \A m \in menu_items : m.id # id

\* the body breaks the schema of its route, read off the Joi schemas
BodyFailsSchema(op, body) ==
  \/ /\ op \in {"POST /api/menu", "PUT /api/menu/:id"}
     /\ body.name = "" \/ body.price <= 0
  \/ /\ op = "POST /api/orders"
     /\ \/ body.items = <<>>
        \/ \E i \in 1..Len(body.items) :
             body.items[i].menu_item_id <= 0 \/ body.items[i].quantity <= 0
  \/ /\ op = "PUT /api/orders/:id/status"
     /\ body.status \notin {"pending", "preparing", "ready", "served", "cancelled"}

tables == <<orders, order_items, omr_forms, menu_items, menu_seq>>

\* a request to a missing row is answered 404 with success = false when its
\* handler looks the row up, and leaves the tables unchanged
NotFoundAtLookup(a) ==
  (api[a].pc \in LookupPcs /\ Steps(a) /\ Missing(api[a].op, api[a].id)) =>
    /\ api'[a].pc = "done"
    /\ api'[a].response.status = 404
    /\ api'[a].response.success = "false"
    /\ UNCHANGED tables

\* C15 as stated: a request that addresses a menu item or order id that does
\* not exist answers 404 with success = false and leaves every table
\* unchanged, whatever else the request carries.
C15_MissingIdIs404 ==
  [][\A a \in ApiReqs :
       /\ (Arrives(a) /\ api'[a].op \in IdRoutes /\ Missing(api'[a].op, api'[a].id)) =>
            /\ api'[a].pc = "done" => api'[a].response.status = 404
            /\ UNCHANGED tables
       /\ NotFoundAtLookup(a)]_vars

\* C15 amended: such a request, when its body passes the validation schema of
\* its route (GET and DELETE have none), answers 404 with success = false and
\* leaves every table unchanged; when the body of PUT /api/menu/:id or
\* PUT /api/orders/:id/status fails the schema the answer is 400 instead, and
\* the tables are unchanged as well.
C15_MissingIdIs404WhenValid ==
  [][\A a \in ApiReqs :
       /\ (Arrives(a) /\ api'[a].op \in IdRoutes) =>
            /\ UNCHANGED tables
            /\ IF BodyFailsSchema(api'[a].op, api'[a].body)
               THEN api'[a].pc = "done" /\ api'[a].response.status = 400
               ELSE api'[a].pc \in LookupPcs
       /\ NotFoundAtLookup(a)]_vars

\* a menu update with a valid body and an order lookup, both for a missing id,
\* were answered 404
C15_Witness ==
  \E a, b \in ApiReqs :
    /\ api[a].pc = "done" /\ api[a].op = "PUT /api/menu/:id"
    /\ api[a].id = NoSuchId /\ api[a].response.status = 404
    /\ api[b].pc = "done" /\ api[b].op = "GET /api/orders/:id"
    /\ api[b].response.status = 404

\* C16: a request whose body fails its validation schema is answered 400 with
\* error = 'Validation Error'; its handler never runs, so no row is written
\* or changed.
C16_InvalidBodyRejected ==
  [][\A a \in ApiReqs :
       /\ (Arrives(a) /\ BodyFailsSchema(api'[a].op, api'[a].body)) =>
            /\ api'[a].pc = "done"
            /\ api'[a].response.status = 400
            /\ api'[a].response.error = "Validation Error"
            /\ UNCHANGED tables
       /\ api[a].pc = "done" => api'[a] = api[a]]_vars

\* the body of the tests, an empty name with a negative price, was rejected
\* while the menu holds the sample items only
C16_Witness ==
  \E a \in ApiReqs :
    /\ api[a].pc = "done" /\ api[a].op = "POST /api/menu"
    /\ api[a].body.name = "" /\ api[a].body.price < 0
    /\ api[a].response.status = 400
    /\ api[a].response.error = MsgValidation
    /\ menu_items = SampleMenu

\* C17 as stated: creating a menu item whose name equals the name of an
\* existing item is answered 409, and the existing item is left unchanged.
C17_DuplicateNameIs409 ==
  [][\A a \in ApiReqs :
       (/\ api[a].pc = "insertMenuItem" /\ Steps(a)
        /\ \E m \in menu_items : m.name = api[a].body.name) =>
         /\ api'[a].pc = "done"
         /\ api'[a].response.status = 409
         /\ menu_items' = menu_items]_vars

\* C18 as stated: GET / answers 200 with a JSON body whose message is
\* 'OMR POS Backend API' and whose endpoints field is defined.
C18_RootIsApiInfo ==
  [][\A a \in ApiReqs :
       (Arrives(a) /\ api'[a].op = "GET /") =>
         /\ api'[a].pc = "done"
         /\ api'[a].response.status = 200
         /\ api'[a].response.json
         /\ api'[a].response.message = "OMR POS Backend API"
         /\ api'[a].response.endpoints]_vars

\* C19: the status of every stored order is one of pending, preparing, ready,
\* served, cancelled; a newly created order is pending; a status update with
\* any other value is rejected with 400 and leaves the stored status unchanged.
C19_StatusDomain ==
  [][/\ \A i \in 1..Len(orders') :
          orders'[i].status \in {"pending", "preparing", "ready", "served", "cancelled"}
     /\ Len(orders') > Len(orders) => orders'[Len(orders')].status = "pending"
     /\ \A a \in ApiReqs :
          (/\ Arrives(a) /\ api'[a].op = "PUT /api/orders/:id/status"
           /\ api'[a].body.status \notin {"pending", "preparing", "ready", "served", "cancelled"}) =>
            /\ api'[a].pc = "done"
            /\ api'[a].response.status = 400
            /\ orders' = orders]_vars

\* an order has been created and is pending, and an update of it to
\* 'completed' was rejected
C19_Witness ==
  /\ Len(orders) = 1 /\ orders[1].status = "pending"
  /\ \E a \in ApiReqs :
       /\ api[a].pc = "done" /\ api[a].op = "PUT /api/orders/:id/status"
       /\ api[a].id = 1 /\ api[a].body.status = "completed"
       /\ api[a].response.status = 400

-----------------------------------------------------------------------------
(* Properties of the client, checked under ClientSpec *)

\* C12 as stated: the aggregate confidence of a processing result is on the
\* 0-100 scale, and every confidence percentage the client computes from it
\* for display lies between 0 and 100.
C12_PercentageInRange ==
  client.view \in {"results", "history"} =>
    /\ 0 <= client.confidence.num /\ client.confidence.num <= 100 * client.confidence.den
    /\ 0 <= client.confidencePercent /\ client.confidencePercent <= 100

-----------------------------------------------------------------------------
(* Properties of the layout model, checked under LayoutSpec *)

\* C20 as stated: for every image size the layout model returns the same
\* ordered list of regions on every call, the list has exactly
\* 2 x |vocabulary| regions, one quantity and one selection region per item,
\* and every region has positive width and height and lies inside
\* [0, width) x [0, height).
C20_RegionsWellFormed ==
  layout.pc \in {"called", "again"} =>
    /\ layout.pc = "again" => layout.second = layout.first
    /\ Len(layout.first) = 2 * Len(MenuVocabulary)
    /\ \A i \in 1..Len(MenuVocabulary) : \A t \in MarkTypes :
         Cardinality({n \in 1..Len(layout.first) :
                        layout.first[n].item = MenuVocabulary[i]
                          /\ layout.first[n].type = t}) = 1
    /\ \A n \in 1..Len(layout.first) :
         LET rg == layout.first[n]
         IN  /\ rg.width > 0 /\ rg.height > 0
             /\ 0 <= rg.x /\ rg.x + rg.width <= layout.width
             /\ 0 <= rg.y /\ rg.y + rg.height <= layout.height

=============================================================================
